---- MODULE Spec2Model ----
(***************************************************************************)
(* Model of the voxel storage core: the run-length ContiguousIntervalTree   *)
(* (src/src/interval_tree.rs), the chunked spatial index with its range     *)
(* iterators (src/src/chunk.rs) and the BitArray (src/src/bit_array.rs).    *)
(*                                                                          *)
(* Vec indices are 0-based in the source and kept 0-based here; a TLA+      *)
(* sequence holds element i of the Vec at position i + 1.                   *)
(***************************************************************************)
EXTENDS Integers, Sequences, FiniteSets, TLC

(***************************************************************************)
(* Bounds of the model.                                                     *)
(***************************************************************************)
\* Largest capacity of a tree under test (trees of capacity 1..MaxCapacity).
MaxCapacity == 4
\* Number of distinct cell values (the type parameter T, T: Clone + Eq).
NumValues == 3
\* A tree that check_rep no longer accepts is followed through this many
\* further set calls that leave it so (the run list grows without limit there).
MaxBrokenSets == 1
\* Half-width of the window of voxel coordinates, on axis 0, around the chunk
\* boundary at CHUNK_SIZE: boxes take their corners in that window.
BoxSpan == 1
\* Corners of the boxes handed to IndexIter::new lie in 0 .. MaxCoord on each axis.
MaxCoord == 2
\* An exhausted IndexIter is called this many more times.
MaxNones == 2
\* Voxel coordinates that are linearized: on each axis the first and the last
\* LinSpan cells of the first two chunks.
LinSpan == 1
\* Longest run list handed to ContiguousIntervalTree::new.
MaxNewLen == 3
\* Largest number of bits asked of BitArray::new.
MaxBits == 10

Values == 0 .. (NumValues - 1)

\* Result of interval_i when its assert!(start < end) fails.
NoInterval == -1

VARIABLES
    intervals,  \* ContiguousIntervalTree::intervals, a Vec<IntervalNode<T>>
    capacity,   \* ContiguousIntervalTree::capacity
    status,     \* "ok", or "panic" once a call has aborted the program
    last,       \* the last completed call on the tree and the tree before it
    cw,         \* the live CellWiseIter, if any: its interval_i and cell_i
    cw_out,     \* the items the live CellWiseIter has yielded, in order
    cw_none,    \* TRUE once the live CellWiseIter has returned None
    broken_sets,\* consecutive set calls so far that left a tree check_rep rejects
    chunks,     \* ChunkSet::chunks, a HashMap<ChunkIndex, Chunk<T>>
    vi,         \* the live ValueIter, if any: range, index_iter.next, cell_iter
    vi_out,     \* the items the live ValueIter has yielded, in order
    vi_none,    \* TRUE once the live ValueIter has returned None
    vi_missing, \* TRUE once the live ValueIter has looked up an absent chunk
    cs_last,    \* the last call on the ChunkSet, if it was ChunkSet::chunk
    passed,     \* the (coordinate, tree capacity) pairs passed to set_chunk so far
    ix,         \* the live IndexIter, if any: its range and its next
    ix_out,     \* the coordinates the live IndexIter has yielded, in order
    ix_nones,   \* the number of times the live IndexIter has returned None
    integers,   \* BitArray::integers, a Vec<usize>
    bits,       \* the argument BitArray::new was called with
    ba_last,    \* the last call on the BitArray and its integers before it
    lin         \* two voxel coordinates and what they were linearized to

tree_vars == <<intervals, capacity, last, cw, cw_out, cw_none, broken_sets>>
chunk_vars == <<chunks, vi, vi_out, vi_none, vi_missing, cs_last, passed>>
index_vars == <<ix, ix_out, ix_nones>>
bit_vars == <<integers, bits, ba_last>>
vars == <<tree_vars, status, chunk_vars, index_vars, bit_vars, lin>>

\* The variables a call on the tree, resp. on the ChunkSet, has no access to.
beside_tree == <<chunk_vars, index_vars, bit_vars, lin>>
beside_chunks == <<tree_vars, index_vars, bit_vars, lin>>

(***************************************************************************)
(* IntervalNode and Vec helpers.                                            *)
(***************************************************************************)
IntervalNode(start, value) == [cell_i_start |-> start, value |-> value]

\* The elements of a finite set of numbers in increasing order.
RECURSIVE SortedSeq(_)
SortedSeq(S) ==
    IF S = {} THEN <<>>
    ELSE LET m == CHOOSE x \in S : \A y \in S : x <= y
         IN  <<m>> \o SortedSeq(S \ {m})

\* Vec::splice(from..to, repl) with 0-based, end-exclusive range.
Splice(s, from, to, repl) == SubSeq(s, 1, from) \o repl \o SubSeq(s, to + 1, Len(s))

\* Vec::remove(i), 0-based.
Remove(s, i) == Splice(s, i, i + 1, <<>>)

\* Vec::insert(i, x), 0-based.
Insert(s, i, x) == Splice(s, i, i, <<x>>)

(***************************************************************************)
(* ContiguousIntervalTree::check_rep: TRUE iff none of its asserts fails.   *)
(* first().unwrap() fails on an empty list.                                 *)
(***************************************************************************)
check_rep(ivs, cap) ==
    /\ Len(ivs) > 0
    /\ ivs[1].cell_i_start = 0
    /\ \A k \in 1 .. (Len(ivs) - 1) : ivs[k].cell_i_start < ivs[k + 1].cell_i_start
    /\ ivs[Len(ivs)].cell_i_start < cap

\* No two adjacent runs hold equal values (the maximality of the spec's data model).
Maximal(ivs) == \A k \in 1 .. (Len(ivs) - 1) : ivs[k].value # ivs[k + 1].value

(***************************************************************************)
(* interval_cell_i_end: the start of the next run, or capacity.             *)
(***************************************************************************)
interval_cell_i_end(ivs, cap, i) ==
    IF i + 1 < Len(ivs) THEN ivs[i + 2].cell_i_start ELSE cap

(***************************************************************************)
(* interval_i: the binary search, one recursion per loop iteration.         *)
(***************************************************************************)
RECURSIVE interval_i_loop(_, _, _, _, _)
interval_i_loop(ivs, cap, cell_i, start, end) ==
    IF ~(start < end)
    THEN NoInterval
    ELSE LET mid == (start + end) \div 2
             interval == ivs[mid + 1]
             e == interval_cell_i_end(ivs, cap, mid)
         IN  IF interval.cell_i_start <= cell_i
             THEN IF interval.cell_i_start <= cell_i /\ cell_i < e
                  THEN mid
                  ELSE interval_i_loop(ivs, cap, cell_i, mid + 1, end)
             ELSE interval_i_loop(ivs, cap, cell_i, start, mid)

\* interval_i with the search started one run short of the list's end.
interval_i_short_end(ivs, cap, cell_i) == interval_i_loop(ivs, cap, cell_i, 0, Len(ivs) - 1)

\* interval_i taking the last run to reach past capacity.
interval_i_last_run_open(ivs, cap, cell_i) ==
    IF cell_i >= ivs[Len(ivs)].cell_i_start
    THEN Len(ivs) - 1
    ELSE interval_i_loop(ivs, cap, cell_i, 0, Len(ivs))

interval_i(ivs, cap, cell_i) == interval_i_loop(ivs, cap, cell_i, 0, Len(ivs))

\* get: the value of the run interval_i finds (defined when it finds one).
get(ivs, cap, index) == ivs[interval_i(ivs, cap, index) + 1].value

(***************************************************************************)
(* set, after interval_i has found run number ii for index.                 *)
(***************************************************************************)
\* set_first_cell without the early return after a merge with the previous run.
set_first_cell_no_merge(ivs, cap, ii, new) ==
    LET interval == ivs[ii + 1]
        e == interval_cell_i_end(ivs, cap, ii)
        is_only_one == e - interval.cell_i_start = 1
        shrunk == IF ~is_only_one
                  THEN [ivs EXCEPT ![ii + 1].cell_i_start = @ + 1]
                  ELSE ivs
    IN  Splice(shrunk, ii, IF is_only_one THEN ii + 1 ELSE ii, <<new>>)

\* set_first_cell that leaves the start of a longer run where it was (no
\* cell_i_start += 1, line 94).
set_first_cell_no_shrink(ivs, cap, ii, new) ==
    LET interval == ivs[ii + 1]
        e == interval_cell_i_end(ivs, cap, ii)
        should_merge_with_prev_node == ii >= 1 /\ ivs[ii].value = new.value
        is_only_one == e - interval.cell_i_start = 1
    IN  IF should_merge_with_prev_node
        THEN IF is_only_one THEN Remove(ivs, ii) ELSE ivs
        ELSE Splice(ivs, ii, IF is_only_one THEN ii + 1 ELSE ii, <<new>>)

\* Lines 80-114: index is the first cell of the run.
set_first_cell(ivs, cap, ii, new) ==
    LET interval == ivs[ii + 1]
        e == interval_cell_i_end(ivs, cap, ii)
        should_merge_with_prev_node == ii >= 1 /\ ivs[ii].value = new.value
        is_only_one == e - interval.cell_i_start = 1
        shrunk == IF ~is_only_one
                  THEN [ivs EXCEPT ![ii + 1].cell_i_start = @ + 1]
                  ELSE ivs
    IN  IF should_merge_with_prev_node
        THEN IF is_only_one THEN Remove(shrunk, ii) ELSE shrunk
        ELSE Splice(shrunk, ii, IF is_only_one THEN ii + 1 ELSE ii, <<new>>)

\* set_later_cell whose split starts the third run at index instead of index + 1.
set_later_cell_split_at_index(ivs, cap, ii, new) ==
    LET interval == ivs[ii + 1]
        e == interval_cell_i_end(ivs, cap, ii)
        is_at_last == new.cell_i_start = e - 1
    IN  IF ~is_at_last
        THEN Splice(ivs, ii + 1, ii + 1,
                    <<new, IntervalNode(new.cell_i_start, interval.value)>>)
        ELSE IF ii + 1 < Len(ivs) /\ ivs[ii + 2].value = new.value
             THEN [ivs EXCEPT ![ii + 2].cell_i_start = @ + 1]
             ELSE Insert(ivs, ii + 1, new)

\* Lines 115-143: index is not the first cell of the run.
set_later_cell(ivs, cap, ii, new) ==
    LET interval == ivs[ii + 1]
        e == interval_cell_i_end(ivs, cap, ii)
        is_at_last == new.cell_i_start = e - 1
    IN  IF ~is_at_last
        THEN Splice(ivs, ii + 1, ii + 1,
                    <<new, IntervalNode(new.cell_i_start + 1, interval.value)>>)
        ELSE IF ii + 1 < Len(ivs) /\ ivs[ii + 2].value = new.value
             THEN [ivs EXCEPT ![ii + 2].cell_i_start = @ + 1]
             ELSE Insert(ivs, ii + 1, new)

\* set without the early return of lines 77-79.
set_no_early_return(ivs, cap, index, value) ==
    LET new == IntervalNode(index, value)
        ii == interval_i(ivs, cap, index)
        interval == ivs[ii + 1]
    IN  IF interval.cell_i_start = index
        THEN set_first_cell(ivs, cap, ii, new)
        ELSE set_later_cell(ivs, cap, ii, new)

\* Lines 69-144: the run list after set(index, value), ii = interval_i(index).
set(ivs, cap, index, value) ==
    LET new == IntervalNode(index, value)
        ii == interval_i(ivs, cap, index)
        interval == ivs[ii + 1]
    IN  IF interval.value = new.value
        THEN ivs
        ELSE IF interval.cell_i_start = index
             THEN set_first_cell(ivs, cap, ii, new)
             ELSE set_later_cell(ivs, cap, ii, new)

\* cell_wise_advance comparing cell_i with interval_len before incrementing it.
cell_wise_advance_late(ivs, cap, it) ==
    LET interval == ivs[it.interval_i + 1]
        interval_end == interval_cell_i_end(ivs, cap, it.interval_i)
        at_len == /\ interval_end >= interval.cell_i_start
                  /\ it.cell_i = interval_end - interval.cell_i_start
    IN  IF at_len
        THEN [active |-> TRUE, interval_i |-> it.interval_i + 1, cell_i |-> 0]
        ELSE [active |-> TRUE, interval_i |-> it.interval_i, cell_i |-> it.cell_i + 1]

\* The iterator after one next() that yields: lines 175-183.  When the usize
\* subtraction wraps (a build without overflow checks) interval_len is at least
\* 2^64 - capacity - 1, which cell_i cannot reach within the yields followed here.
cell_wise_advance(ivs, cap, it) ==
    LET interval == ivs[it.interval_i + 1]
        cell_i == it.cell_i + 1
        interval_end == interval_cell_i_end(ivs, cap, it.interval_i)
        at_len == /\ interval_end >= interval.cell_i_start
                  /\ cell_i = interval_end - interval.cell_i_start
    IN  IF at_len
        THEN [active |-> TRUE, interval_i |-> it.interval_i + 1, cell_i |-> 0]
        ELSE [active |-> TRUE, interval_i |-> it.interval_i, cell_i |-> cell_i]

(***************************************************************************)
(* Coordinate linearization (chunk.rs).  An Index is a 3-tuple, axis i of   *)
(* the source at position i + 1.                                            *)
(***************************************************************************)
\* const CHUNK_SIZE: [usize; 3] = [2 << 4, 2 << 4, 2 << 4]
CHUNK_SIZE == <<32, 32, 32>>

\* CHUNK_SIZE.iter().product()
ChunkVolume == CHUNK_SIZE[1] * CHUNK_SIZE[2] * CHUNK_SIZE[3]

\* VoxelIndex::chunk_index: component-wise integer division.
chunk_index(v) == [i \in 1 .. 3 |-> v[i] \div CHUNK_SIZE[i]]

\* interval_tree_index_loop whose weight stays 1 (no mag *= n, line 50).
RECURSIVE interval_tree_index_loop_flat(_, _, _, _)
interval_tree_index_loop_flat(v, i, index, mag) ==
    IF i > 3 THEN index
    ELSE interval_tree_index_loop_flat(v, i + 1,
                                       index + (v[i] % CHUNK_SIZE[i]) * mag, mag)

\* VoxelIndex::interval_tree_index: the loop from axis i on, with the index
\* and the weight (mag) accumulated so far.
RECURSIVE interval_tree_index_loop(_, _, _, _)
interval_tree_index_loop(v, i, index, mag) ==
    IF i > 3 THEN index
    ELSE interval_tree_index_loop(v, i + 1,
                                  index + (v[i] % CHUNK_SIZE[i]) * mag,
                                  mag * CHUNK_SIZE[i])

interval_tree_index(v) == interval_tree_index_loop(v, 1, 0, 1)

(***************************************************************************)
(* Chunk and ChunkSet.                                                      *)
(***************************************************************************)
\* A ContiguousIntervalTree as a value: what ContiguousIntervalTree::new builds.
Tree(nodes, cap) == [intervals |-> nodes, capacity |-> cap]

\* chunk_new_ok without the assert: any tree is wrapped.
chunk_new_ok_unchecked(data) == data.capacity = data.capacity

\* Chunk::new: its assert_eq!(data.capacity(), CHUNK_SIZE.iter().product()).
chunk_new_ok(data) == data.capacity = ChunkVolume

\* ChunkSet::set_chunk: HashMap::insert.
set_chunk(cs, index, chunk) ==
    [ci \in (DOMAIN cs) \cup {index} |-> IF ci = index THEN chunk ELSE cs[ci]]

\* ChunkSet::chunk(index).is_some()
has_chunk(cs, index) == index \in DOMAIN cs

(***************************************************************************)
(* IndexIter.                                                               *)
(***************************************************************************)
None3 == [some |-> FALSE, v |-> <<0, 0, 0>>]
Some3(v) == [some |-> TRUE, v |-> v]

\* index_iter_new_ok with the assert made on axis 0 only.
index_iter_new_ok_first_axis(start, end) == start[1] <= end[1]

\* IndexIter::new: its assert!(s <= e) on every axis.
index_iter_new_ok(start, end) == \A i \in 1 .. 3 : start[i] <= end[i]

\* index_iter_step that leaves a coordinate at end when it carries, instead of
\* setting it back to start (line 218).
RECURSIVE index_iter_step_no_reset(_, _, _, _, _)
index_iter_step_no_reset(x, start, end, i, mag) ==
    IF i > 3 THEN [x |-> x, mag |-> mag]
    ELSE IF x[i] # end[i]
         THEN [x |-> [x EXCEPT ![i] = @ + 1], mag |-> mag]
         ELSE index_iter_step_no_reset(x, start, end, i + 1, mag + 1)

\* The for loop of IndexIter::next from axis i on: the advanced coordinate and
\* mag, the number of axes that wrapped.
RECURSIVE index_iter_step(_, _, _, _, _)
index_iter_step(x, start, end, i, mag) ==
    IF i > 3 THEN [x |-> x, mag |-> mag]
    ELSE IF x[i] # end[i]
         THEN [x |-> [x EXCEPT ![i] = @ + 1], mag |-> mag]
         ELSE index_iter_step([x EXCEPT ![i] = start[i]], start, end, i + 1, mag + 1)

\* self.next after IndexIter::next has returned Some(cur).
index_iter_advance(cur, start, end) ==
    LET r == index_iter_step(cur, start, end, 1, 0)
    IN  IF r.mag = 3 THEN None3 ELSE Some3(r.x)

(***************************************************************************)
(* ValueIter.                                                               *)
(***************************************************************************)
NoCellIter == [some |-> FALSE, chunk |-> <<0, 0, 0>>, interval_i |-> 0, cell_i |-> 0]

\* ContiguousIntervalTree::cell_wise_iter(start) of the revision chunk.rs is
\* written against: a CellWiseIter positioned at cell start.
cell_wise_iter_from(data, start) ==
    LET ii == interval_i(data.intervals, data.capacity, start)
    IN  [interval_i |-> ii, cell_i |-> start - data.intervals[ii + 1].cell_i_start]

\* ValueIter::set_cell_iter(index), the chunk being present.
set_cell_iter(cs, index) ==
    LET it == cell_wise_iter_from(cs[chunk_index(index)], interval_tree_index(index))
    IN  [some |-> TRUE, chunk |-> chunk_index(index),
         interval_i |-> it.interval_i, cell_i |-> it.cell_i]

\* Line 112: the coordinate is in the start column of the range.
at_row_start(c, start) == c[1] = start[1]

\* value_iter_step without the re-derivation on a change of chunk (lines 115-117).
value_iter_step_no_chunk_check(cs, it, c) ==
    LET missing == ~has_chunk(cs, chunk_index(c))
        rederive1 == at_row_start(c, it.start)
        ci1 == IF rederive1 /\ ~missing THEN set_cell_iter(cs, c) ELSE it.cell_iter
        data == cs[ci1.chunk]
    IN  IF (rederive1 /\ missing) \/ ~ci1.some
        THEN [panic |-> TRUE, missing |-> rederive1 /\ missing,
              cell_iter |-> it.cell_iter, item |-> 0]
        ELSE IF ci1.interval_i = Len(data.intervals)
             THEN [panic |-> TRUE, missing |-> FALSE, cell_iter |-> ci1, item |-> 0]
             ELSE LET adv == cell_wise_advance(data.intervals, data.capacity, ci1)
                  IN  [panic |-> FALSE, missing |-> FALSE,
                       cell_iter |-> [ci1 EXCEPT !.interval_i = adv.interval_i,
                                                 !.cell_i = adv.cell_i],
                       item |-> data.intervals[ci1.interval_i + 1].value]

\* value_iter_step deriving the cell iterator when there is none yet, instead
\* of at every start of a row (line 112).
value_iter_step_no_row_rederive(cs, it, c) ==
    LET missing == ~has_chunk(cs, chunk_index(c))
        rederive1 == ~it.cell_iter.some
        ci1 == IF rederive1 /\ ~missing THEN set_cell_iter(cs, c) ELSE it.cell_iter
        rederive2 == ci1.some /\ chunk_index(c) # ci1.chunk
        ci2 == IF rederive2 /\ ~missing THEN set_cell_iter(cs, c) ELSE ci1
        data == cs[ci2.chunk]
    IN  IF (rederive1 /\ missing) \/ ~ci1.some \/ (rederive2 /\ missing)
        THEN [panic |-> TRUE, missing |-> (rederive1 \/ rederive2) /\ missing,
              cell_iter |-> it.cell_iter, item |-> 0]
        ELSE IF ci2.interval_i = Len(data.intervals)
             THEN [panic |-> TRUE, missing |-> FALSE, cell_iter |-> ci2, item |-> 0]
             ELSE LET adv == cell_wise_advance(data.intervals, data.capacity, ci2)
                  IN  [panic |-> FALSE, missing |-> FALSE,
                       cell_iter |-> [ci2 EXCEPT !.interval_i = adv.interval_i,
                                                 !.cell_i = adv.cell_i],
                       item |-> data.intervals[ci2.interval_i + 1].value]

\* ValueIter::next, lines 111-118, for the coordinate c that index_iter
\* yielded: the outcome is a panic (an unwrap of None), or the cell_iter left
\* behind and the item yielded.
value_iter_step(cs, it, c) ==
    LET missing == ~has_chunk(cs, chunk_index(c))
        rederive1 == at_row_start(c, it.start)
        ci1 == IF rederive1 /\ ~missing THEN set_cell_iter(cs, c) ELSE it.cell_iter
        rederive2 == ci1.some /\ chunk_index(c) # ci1.chunk
        ci2 == IF rederive2 /\ ~missing THEN set_cell_iter(cs, c) ELSE ci1
        data == cs[ci2.chunk]
    IN  IF (rederive1 /\ missing) \/ ~ci1.some \/ (rederive2 /\ missing)
        THEN [panic |-> TRUE, missing |-> (rederive1 \/ rederive2) /\ missing,
              cell_iter |-> it.cell_iter, item |-> 0]
        ELSE IF ci2.interval_i = Len(data.intervals)
             THEN [panic |-> TRUE, missing |-> FALSE, cell_iter |-> ci2, item |-> 0]
             ELSE LET adv == cell_wise_advance(data.intervals, data.capacity, ci2)
                  IN  [panic |-> FALSE, missing |-> FALSE,
                       cell_iter |-> [ci2 EXCEPT !.interval_i = adv.interval_i,
                                                 !.cell_i = adv.cell_i],
                       item |-> data.intervals[ci2.interval_i + 1].value]

NoValueIter == [active |-> FALSE, start |-> <<0, 0, 0>>, end |-> <<0, 0, 0>>,
                next |-> None3, cell_iter |-> NoCellIter]

(***************************************************************************)
(* Inputs of the chunk calls.                                               *)
(***************************************************************************)
\* Voxel coordinates of box corners.  On axis 0, along which a row runs, a
\* window around the chunk boundary that reaches one cell further down than
\* up, so that a row has two cells of one chunk before it crosses into the
\* next; on axis 1 the two cells at the chunk boundary (as in test_value_iter);
\* on axis 2 the first two layers.
Coords0 == (CHUNK_SIZE[1] - BoxSpan - 1) .. (CHUNK_SIZE[1] + BoxSpan - 1)
Coords1 == {CHUNK_SIZE[2] - 1, CHUNK_SIZE[2]}
Coords2 == {0, 1}
Corners == {<<x, y, z>> : x \in Coords0, y \in Coords1, z \in Coords2}

\* The chunk coordinates those voxels fall in.
ChunkIndices == {chunk_index(v) : v \in Corners}

ChunkNo(ci) == ci[1] + 2 * ci[2] + 4 * ci[3]

\* Run starts that put every cell a box can touch in a run of its own.
FineStarts ==
    SortedSeq({0} \cup
              {n \in {interval_tree_index(v) + d : v \in Corners, d \in {0, 1}} :
                   n < ChunkVolume})

\* Trees handed to Chunk::new for chunk ci: one run over the whole volume, or
\* the fine partition, with values no two chunks share (as in test_value_iter,
\* where every cell holds a distinct counter), or a tree of the wrong capacity.
UniformTree(ci) == Tree(<<IntervalNode(0, 1000 * (ChunkNo(ci) + 1))>>, ChunkVolume)
FineTree(ci) ==
    Tree([k \in 1 .. Len(FineStarts) |->
            IntervalNode(FineStarts[k], 1000 * (ChunkNo(ci) + 1) + k)],
         ChunkVolume)
ShortTree == Tree(<<IntervalNode(0, 0)>>, ChunkVolume - 1)
ChunkTrees(ci) == {UniformTree(ci), FineTree(ci), ShortTree}

(***************************************************************************)
(* Initial states: every (nodes, capacity) that ContiguousIntervalTree::new *)
(* accepts, i.e. on which check_rep passes, over the bounded values.        *)
(***************************************************************************)
NodeLists(cap) ==
    UNION { { [k \in 1 .. Len(st) |-> IntervalNode(st[k], vs[k])] :
                vs \in [1 .. Len(st) -> Values] } :
            st \in { SortedSeq(S \cup {0}) : S \in SUBSET (1 .. (cap - 1)) } }

\* The plain array a run list stands for: cell i holds the value of the last
\* run starting at or before i.
ArrayOf(ivs, cap) ==
    [i \in 0 .. (cap - 1) |->
        LET k == CHOOSE k \in 1 .. Len(ivs) :
                    /\ ivs[k].cell_i_start <= i
                    /\ \A j \in (k + 1) .. Len(ivs) : ivs[j].cell_i_start > i
        IN  ivs[k].value]

NoCall == [op |-> "none", index |-> 0, value |-> 0, pre |-> <<>>, cap |-> 0]
NoIter == [active |-> FALSE, interval_i |-> 0, cell_i |-> 0]

IterCall == [op |-> "cell_wise_iter", index |-> 0, value |-> 0, pre |-> <<>>, cap |-> 0]

NoChunkCall == [op |-> "none", index |-> <<0, 0, 0>>, found |-> FALSE, pre |-> <<>>]

\* ChunkSet::new and no ValueIter.
ChunkInit ==
    /\ chunks = <<>>
    /\ vi = NoValueIter
    /\ vi_out = <<>>
    /\ vi_none = FALSE
    /\ vi_missing = FALSE
    /\ cs_last = NoChunkCall
    /\ passed = {}

NoIndexIter == [active |-> FALSE, start |-> <<0, 0, 0>>, end |-> <<0, 0, 0>>,
                next |-> None3]

\* No IndexIter of its own (the one inside a ValueIter is part of vi).
IndexInit ==
    /\ ix = NoIndexIter
    /\ ix_out = <<>>
    /\ ix_nones = 0

NoBitCall == [op |-> "none", index |-> 0, pre |-> <<>>, result |-> FALSE]

\* No BitArray.
NoBits ==
    /\ integers = <<>>
    /\ bits = 0
    /\ ba_last = NoBitCall

NoLin == [done |-> FALSE, a |-> <<0, 0, 0>>, b |-> <<0, 0, 0>>,
          a_chunk |-> <<0, 0, 0>>, b_chunk |-> <<0, 0, 0>>, a_cell |-> 0, b_cell |-> 0]

Init ==
    /\ capacity \in 1 .. MaxCapacity
    /\ intervals \in NodeLists(capacity)
    /\ check_rep(intervals, capacity)
    /\ status = "ok"
    /\ last = NoCall
    /\ cw = NoIter
    /\ cw_out = <<>>
    /\ cw_none = FALSE
    /\ broken_sets = 0
    /\ ChunkInit
    /\ IndexInit
    /\ NoBits
    /\ lin = NoLin

(***************************************************************************)
(* Calls on the tree.  A &mut call needs no live iterator (the borrow).     *)
(***************************************************************************)
Idle == status = "ok" /\ ~cw.active

\* tree.set(index, value), whatever the index.
SetCall(index, value) ==
    /\ Idle
    /\ broken_sets <= MaxBrokenSets
    /\ IF interval_i(intervals, capacity, index) = NoInterval
       THEN /\ status' = "panic"
            /\ UNCHANGED intervals
       ELSE /\ intervals' = set(intervals, capacity, index, value)
            /\ status' = "ok"
    /\ broken_sets' = IF check_rep(intervals', capacity) THEN 0 ELSE broken_sets + 1
    /\ last' = [op |-> "set", index |-> index, value |-> value,
                pre |-> intervals, cap |-> capacity]
    /\ UNCHANGED <<capacity, cw, cw_out, cw_none>>
    /\ UNCHANGED beside_tree

\* tree.set(index, value), index < capacity.
Set(index, value) == index < capacity /\ SetCall(index, value)

\* tree.get(index), whatever the index; last.value is the value returned.
GetCall(index) ==
    /\ Idle
    /\ IF interval_i(intervals, capacity, index) = NoInterval
       THEN /\ status' = "panic"
            /\ last' = [op |-> "get", index |-> index, value |-> 0,
                        pre |-> intervals, cap |-> capacity]
       ELSE /\ status' = "ok"
            /\ last' = [op |-> "get", index |-> index,
                        value |-> get(intervals, capacity, index),
                        pre |-> intervals, cap |-> capacity]
    /\ UNCHANGED <<intervals, capacity, cw, cw_out, cw_none, broken_sets>>
    /\ UNCHANGED beside_tree

\* tree.get(index), index < capacity.
Get(index) == index < capacity /\ GetCall(index)

\* ContiguousIntervalTree::new(nodes, cap), lines 19-26, where no tree exists
\* yet: last.pre and last.cap are the arguments.
New(nodes, cap) ==
    /\ status = "ok"
    /\ intervals = <<>>
    /\ IF check_rep(nodes, cap)
       THEN /\ intervals' = nodes
            /\ capacity' = cap
            /\ status' = "ok"
       ELSE /\ status' = "panic"
            /\ UNCHANGED <<intervals, capacity>>
    /\ last' = [op |-> "new", index |-> 0, value |-> 0, pre |-> nodes, cap |-> cap]
    /\ UNCHANGED <<cw, cw_out, cw_none, broken_sets>>
    /\ UNCHANGED beside_tree

(***************************************************************************)
(* CellWiseIter.                                                            *)
(***************************************************************************)
\* tree.cell_wise_iter(): CellWiseIter::new, lines 160-166.
CellWiseIterNew ==
    /\ Idle
    /\ cw' = [active |-> TRUE, interval_i |-> 0, cell_i |-> 0]
    /\ cw_out' = <<>>
    /\ cw_none' = FALSE
    /\ last' = IterCall
    /\ UNCHANGED <<intervals, capacity, status, broken_sets>>
    /\ UNCHANGED beside_tree

\* interval_end - interval.cell_i_start underflows (usize) at the live position.
CellWiseLenUnderflows ==
    /\ cw.interval_i < Len(intervals)
    /\ interval_cell_i_end(intervals, capacity, cw.interval_i)
         < intervals[cw.interval_i + 1].cell_i_start

\* CellWiseIter::next, lines 171-184.  At most capacity + 1 yields are followed.
CellWiseIterNext ==
    /\ status = "ok"
    /\ cw.active
    /\ Len(cw_out) <= capacity
    /\ IF cw.interval_i = Len(intervals)
       THEN /\ cw_none' = TRUE
            /\ UNCHANGED <<cw, cw_out>>
       ELSE /\ cw' = cell_wise_advance(intervals, capacity, cw)
            /\ cw_out' = Append(cw_out, intervals[cw.interval_i + 1].value)
            /\ cw_none' = FALSE
    /\ UNCHANGED <<intervals, capacity, status, last, broken_sets>>
    /\ UNCHANGED beside_tree

\* CellWiseIter::next in a build with overflow checks: line 178 panics.
CellWiseIterNextOverflow ==
    /\ status = "ok"
    /\ cw.active
    /\ CellWiseLenUnderflows
    /\ status' = "panic"
    /\ UNCHANGED <<intervals, capacity, last, cw, cw_out, cw_none, broken_sets>>
    /\ UNCHANGED beside_tree

\* The iterator goes out of scope, ending its borrow of the tree.
CellWiseIterDrop ==
    /\ status = "ok"
    /\ cw.active
    /\ cw' = NoIter
    /\ cw_out' = <<>>
    /\ cw_none' = FALSE
    /\ UNCHANGED <<intervals, capacity, status, last, broken_sets>>
    /\ UNCHANGED beside_tree

Next ==
    \/ \E index \in 0 .. (MaxCapacity - 1), value \in Values : Set(index, value)
    \/ \E index \in 0 .. (MaxCapacity - 1) : Get(index)
    \/ CellWiseIterNew
    \/ CellWiseIterNext
    \/ CellWiseIterNextOverflow
    \/ CellWiseIterDrop

\* set and get called with indices up to MaxCapacity, in range or not.
NextAnyIndex ==
    \/ \E index \in 0 .. MaxCapacity, value \in Values : SetCall(index, value)
    \/ \E index \in 0 .. MaxCapacity : GetCall(index)

\* Run lists of up to MaxNewLen nodes, well-formed or not.
NewNodes == {IntervalNode(st, v) : st \in 0 .. MaxCapacity, v \in Values}
NewLists == UNION {[1 .. n -> NewNodes] : n \in 0 .. MaxNewLen}

NextNew == \E nodes \in NewLists, cap \in 0 .. MaxCapacity : New(nodes, cap)

(***************************************************************************)
(* Calls on the ChunkSet and the ValueIter over it.                         *)
(***************************************************************************)
ChunkIdle == status = "ok" /\ ~vi.active

\* chunk_set.set_chunk(index, Chunk::new(data)).
SetChunk(index, data) ==
    /\ ChunkIdle
    /\ IF chunk_new_ok(data)
       THEN /\ chunks' = set_chunk(chunks, index, data)
            /\ status' = "ok"
       ELSE /\ status' = "panic"
            /\ UNCHANGED chunks
    /\ passed' = passed \cup {[index |-> index, capacity |-> data.capacity]}
    /\ cs_last' = NoChunkCall
    /\ UNCHANGED <<vi, vi_out, vi_none, vi_missing>>
    /\ UNCHANGED beside_chunks

\* chunk_set.chunk(index): cs_last.found is whether it returned Some.
ChunkLookup(index) ==
    /\ ChunkIdle
    /\ cs_last' = [op |-> "chunk", index |-> index,
                   found |-> has_chunk(chunks, index), pre |-> chunks]
    /\ UNCHANGED <<chunks, status, passed, vi, vi_out, vi_none, vi_missing>>
    /\ UNCHANGED beside_chunks

\* ValueIter::new(&chunk_set, start..=end), lines 87-95, with IndexIter::new.
ValueIterNew(start, end) ==
    /\ ChunkIdle
    /\ IF index_iter_new_ok(start, end)
       THEN /\ vi' = [active |-> TRUE, start |-> start, end |-> end,
                      next |-> Some3(start), cell_iter |-> NoCellIter]
            /\ status' = "ok"
       ELSE /\ status' = "panic"
            /\ UNCHANGED vi
    /\ vi_out' = <<>>
    /\ vi_none' = FALSE
    /\ vi_missing' = FALSE
    /\ cs_last' = NoChunkCall
    /\ UNCHANGED <<chunks, passed>>
    /\ UNCHANGED beside_chunks

\* ValueIter::next, lines 109-119, with the IndexIter::next it calls.
ValueIterNext ==
    /\ status = "ok"
    /\ vi.active
    /\ IF ~vi.next.some
       THEN /\ vi_none' = TRUE
            /\ UNCHANGED <<vi, vi_out, vi_missing, status>>
       ELSE LET c == vi.next.v
                r == value_iter_step(chunks, vi, c)
            IN  /\ vi' = [vi EXCEPT !.next = index_iter_advance(c, vi.start, vi.end),
                                    !.cell_iter = r.cell_iter]
                /\ vi_missing' = r.missing
                /\ status' = IF r.panic THEN "panic" ELSE "ok"
                /\ vi_out' = IF r.panic THEN vi_out ELSE Append(vi_out, r.item)
                /\ vi_none' = FALSE
    /\ UNCHANGED <<chunks, cs_last, passed>>
    /\ UNCHANGED beside_chunks

\* The ValueIter goes out of scope, ending its borrow of the ChunkSet.
ValueIterDrop ==
    /\ status = "ok"
    /\ vi.active
    /\ vi' = NoValueIter
    /\ vi_out' = <<>>
    /\ vi_none' = FALSE
    /\ vi_missing' = FALSE
    /\ UNCHANGED <<chunks, status, cs_last, passed>>
    /\ UNCHANGED beside_chunks

NextChunk ==
    \/ \E index \in ChunkIndices : \E data \in ChunkTrees(index) : SetChunk(index, data)
    \/ \E start \in Corners, end \in Corners : ValueIterNew(start, end)
    \/ ValueIterNext
    \/ ValueIterDrop

\* A one-cell tree that is not operated on.
OneCellTree ==
    /\ capacity = 1
    /\ intervals = <<IntervalNode(0, 0)>>
    /\ last = NoCall
    /\ cw = NoIter
    /\ cw_out = <<>>
    /\ cw_none = FALSE
    /\ broken_sets = 0

\* The chunk calls, beside a one-cell tree that is not operated on.
InitChunk ==
    /\ OneCellTree
    /\ status = "ok"
    /\ ChunkInit
    /\ IndexInit
    /\ NoBits
    /\ lin = NoLin

SpecChunk == InitChunk /\ [][NextChunk]_vars

(***************************************************************************)
(* IndexIter on its own.                                                    *)
(***************************************************************************)
IndexCorners == {<<x, y, z>> : x \in 0 .. MaxCoord, y \in 0 .. MaxCoord, z \in 0 .. MaxCoord}

\* IndexIter::new(start..=end), lines 186-200.  The range asked for is kept in
\* ix also when the assert fails.
IndexIterNew(start, end) ==
    /\ status = "ok"
    /\ ~ix.active
    /\ IF index_iter_new_ok(start, end)
       THEN /\ ix' = [active |-> TRUE, start |-> start, end |-> end,
                      next |-> Some3(start)]
            /\ status' = "ok"
       ELSE /\ ix' = [active |-> FALSE, start |-> start, end |-> end, next |-> None3]
            /\ status' = "panic"
    /\ ix_out' = <<>>
    /\ ix_nones' = 0
    /\ UNCHANGED <<tree_vars, chunk_vars, bit_vars, lin>>

\* IndexIter::next, lines 204-225.
IndexIterNext ==
    /\ status = "ok"
    /\ ix.active
    /\ ix_nones < MaxNones
    /\ IF ~ix.next.some
       THEN /\ ix_nones' = ix_nones + 1
            /\ UNCHANGED <<ix, ix_out>>
       ELSE /\ ix' = [ix EXCEPT !.next = index_iter_advance(ix.next.v, ix.start, ix.end)]
            /\ ix_out' = Append(ix_out, ix.next.v)
            /\ UNCHANGED ix_nones
    /\ UNCHANGED <<status, tree_vars, chunk_vars, bit_vars, lin>>

\* The IndexIter goes out of scope.
IndexIterDrop ==
    /\ status = "ok"
    /\ ix.active
    /\ ix' = NoIndexIter
    /\ ix_out' = <<>>
    /\ ix_nones' = 0
    /\ UNCHANGED <<status, tree_vars, chunk_vars, bit_vars, lin>>

NextIndex ==
    \/ \E start \in IndexCorners, end \in IndexCorners : IndexIterNew(start, end)
    \/ IndexIterNext
    \/ IndexIterDrop

SpecIndex == InitChunk /\ [][NextIndex]_vars

(***************************************************************************)
(* Linearization of two voxel coordinates.                                  *)
(***************************************************************************)
LinAxis(i) ==
    {x \in 0 .. (2 * CHUNK_SIZE[i] - 1) :
        x % CHUNK_SIZE[i] < LinSpan \/ x % CHUNK_SIZE[i] >= CHUNK_SIZE[i] - LinSpan}

LinCoords == {<<x, y, z>> : x \in LinAxis(1), y \in LinAxis(2), z \in LinAxis(3)}

\* VoxelIndex::new(a) and VoxelIndex::new(b), nothing computed yet.
InitLin ==
    /\ OneCellTree
    /\ status = "ok"
    /\ ChunkInit
    /\ IndexInit
    /\ NoBits
    /\ \E a \in LinCoords, b \in LinCoords : lin = [NoLin EXCEPT !.a = a, !.b = b]

\* chunk_index() and interval_tree_index() of both coordinates.
Linearize ==
    /\ status = "ok"
    /\ ~lin.done
    /\ lin' = [done |-> TRUE, a |-> lin.a, b |-> lin.b,
               a_chunk |-> chunk_index(lin.a), b_chunk |-> chunk_index(lin.b),
               a_cell |-> interval_tree_index(lin.a),
               b_cell |-> interval_tree_index(lin.b)]
    /\ UNCHANGED <<status, tree_vars, chunk_vars, index_vars, bit_vars>>

NextLin == Linearize

SpecLin == InitLin /\ [][NextLin]_vars

(***************************************************************************)
(* BitArray (bit_array.rs).                                                 *)
(***************************************************************************)
\* core::mem::size_of::<usize>() on a 64-bit target: the bytes of a usize.
SizeOfUsize == 8

\* usize::div_ceil, the divisor not 0.
div_ceil(a, b) == (a + b - 1) \div b

\* BitArray::new, lines 7-11, bits > 0: vec![0; integers].
bit_array_new(n) ==
    LET bytes == div_ceil(n, n)
        count == div_ceil(bytes, SizeOfUsize)
    IN  [k \in 1 .. count |-> 0]

integer_index(bit_index) == bit_index \div SizeOfUsize
bit_offset(bit_index) == bit_index % SizeOfUsize

\* 1 << k
RECURSIVE Shl1(_)
Shl1(k) == IF k = 0 THEN 1 ELSE 2 * Shl1(k - 1)

\* a & b, a | b and a ^ b on usize, bit by bit from the lowest.
RECURSIVE BitAnd(_, _)
BitAnd(a, b) ==
    IF a = 0 \/ b = 0 THEN 0
    ELSE (IF a % 2 = 1 /\ b % 2 = 1 THEN 1 ELSE 0) + 2 * BitAnd(a \div 2, b \div 2)

RECURSIVE BitOr(_, _)
BitOr(a, b) ==
    IF a = 0 THEN b ELSE IF b = 0 THEN a
    ELSE (IF a % 2 = 1 \/ b % 2 = 1 THEN 1 ELSE 0) + 2 * BitOr(a \div 2, b \div 2)

RECURSIVE BitXor(_, _)
BitXor(a, b) ==
    IF a = 0 THEN b ELSE IF b = 0 THEN a
    ELSE (IF a % 2 # b % 2 THEN 1 ELSE 0) + 2 * BitXor(a \div 2, b \div 2)

\* a & !b: the bits of a that b does not have.
BitAndNot(a, b) == a - BitAnd(a, b)

\* The Vec index of get and bit_op is in bounds.
bit_in_bounds(ints, index) == integer_index(index) < Len(ints)

\* BitArray::get, lines 20-25, the Vec index being in bounds.
bit_get(ints, index) ==
    LET integer == ints[integer_index(index) + 1]
        pos == Shl1(bit_offset(index))
        is_empty == BitAnd(integer, pos) = 0
    IN  ~is_empty

\* bit_op, lines 26-30, with the closure of set, clear or toggle.
bit_op(ints, bit_index, op) ==
    LET integer == ints[integer_index(bit_index) + 1]
        pos == Shl1(bit_offset(bit_index))
        result == CASE op = "set" -> BitOr(integer, pos)
                    [] op = "clear" -> BitAndNot(integer, pos)
                    [] op = "toggle" -> BitXor(integer, pos)
    IN  [ints EXCEPT ![integer_index(bit_index) + 1] = result]

\* BitArray::new(n), where no BitArray exists yet; new(0) divides by zero.
BitNew(n) ==
    /\ status = "ok"
    /\ ba_last.op = "none"
    /\ bits' = n
    /\ IF n = 0
       THEN /\ status' = "panic"
            /\ UNCHANGED integers
       ELSE /\ integers' = bit_array_new(n)
            /\ status' = "ok"
    /\ ba_last' = [op |-> "new", index |-> 0, pre |-> <<>>, result |-> FALSE]
    /\ UNCHANGED <<tree_vars, chunk_vars, index_vars, lin>>

\* ba.set(index), ba.clear(index) or ba.toggle(index), index < bits.
BitOp(op, index) ==
    /\ status = "ok"
    /\ ba_last.op # "none"
    /\ index < bits
    /\ IF bit_in_bounds(integers, index)
       THEN /\ integers' = bit_op(integers, index, op)
            /\ status' = "ok"
       ELSE /\ status' = "panic"
            /\ UNCHANGED integers
    /\ ba_last' = [op |-> op, index |-> index, pre |-> integers, result |-> FALSE]
    /\ UNCHANGED bits
    /\ UNCHANGED <<tree_vars, chunk_vars, index_vars, lin>>

\* ba.get(index), index < bits; ba_last.result is what it returned.
BitGet(index) ==
    /\ status = "ok"
    /\ ba_last.op # "none"
    /\ index < bits
    /\ IF bit_in_bounds(integers, index)
       THEN /\ ba_last' = [op |-> "get", index |-> index, pre |-> integers,
                           result |-> bit_get(integers, index)]
            /\ status' = "ok"
       ELSE /\ ba_last' = [op |-> "get", index |-> index, pre |-> integers,
                           result |-> FALSE]
            /\ status' = "panic"
    /\ UNCHANGED <<integers, bits>>
    /\ UNCHANGED <<tree_vars, chunk_vars, index_vars, lin>>

NextBits ==
    \/ \E n \in 0 .. MaxBits : BitNew(n)
    \/ \E op \in {"set", "clear", "toggle"}, index \in 0 .. (MaxBits - 1) : BitOp(op, index)
    \/ \E index \in 0 .. (MaxBits - 1) : BitGet(index)

SpecBits == InitChunk /\ [][NextBits]_vars

\* The ChunkSet written and read, no iterator over it.
NextChunkSet ==
    \/ \E index \in ChunkIndices : \E data \in ChunkTrees(index) : SetChunk(index, data)
    \/ \E index \in ChunkIndices : ChunkLookup(index)

SpecChunkSet == InitChunk /\ [][NextChunkSet]_vars

Spec == Init /\ [][Next]_vars

SpecAnyIndex == Init /\ [][NextAnyIndex]_vars

\* Before any tree is constructed.
InitNew ==
    /\ capacity = 0
    /\ intervals = <<>>
    /\ status = "ok"
    /\ last = NoCall
    /\ cw = NoIter
    /\ cw_out = <<>>
    /\ cw_none = FALSE
    /\ broken_sets = 0
    /\ ChunkInit
    /\ IndexInit
    /\ NoBits
    /\ lin = NoLin

SpecNew == InitNew /\ [][NextNew]_vars

\* The same program started from a tree in which no two adjacent runs hold
\* equal values.
InitMaximal == Init /\ Maximal(intervals)
SpecMaximal == InitMaximal /\ [][Next]_vars

(***************************************************************************)
(* What the last call was about: the run of last.pre holding last.index.    *)
(***************************************************************************)
LastSetOk == last.op = "set" /\ status = "ok"
LastIi == interval_i(last.pre, last.cap, last.index)
LastRun == last.pre[LastIi + 1]
LastEnd == interval_cell_i_end(last.pre, last.cap, LastIi)
LastAtFirst == last.index = LastRun.cell_i_start
LastAtLast == last.index = LastEnd - 1
LastPrevHolds == LastIi >= 1 /\ last.pre[LastIi].value = last.value
LastNextHolds == LastIi + 1 < Len(last.pre) /\ last.pre[LastIi + 2].value = last.value

\* Run number k (0-based) of ivs contains cell i.
Contains(ivs, cap, k, i) ==
    ivs[k + 1].cell_i_start <= i /\ i < interval_cell_i_end(ivs, cap, k)

(***************************************************************************)
(* Claims.                                                                  *)
(***************************************************************************)
\* C1: the tree agrees cell for cell with a plain array that received the
\* same writes: after set(index, value) on a tree that check_rep accepts,
\* get(i) finds a run for every i < capacity and returns what the array of the
\* tree before the call holds at i once value is written at index.
C1_GetAgreesWithArray ==
    (LastSetOk /\ check_rep(last.pre, last.cap)) =>
        \A i \in 0 .. (capacity - 1) :
            /\ interval_i(intervals, capacity, i) # NoInterval
            /\ get(intervals, capacity, i) =
                   [ArrayOf(last.pre, last.cap) EXCEPT ![last.index] = last.value][i]

\* C2: in every reachable state the run list is non-empty, starts at 0, has
\* strictly increasing starts and a last start below capacity (check_rep).
C2_CheckRepHolds == check_rep(intervals, capacity)

\* C3: started from a tree in which no two adjacent runs hold equal values,
\* no sequence of set calls leaves two adjacent runs holding equal values.
C3_MaximalityPreserved == Maximal(intervals)

\* C4: set(i, get(i)) leaves the run list and the capacity exactly as they were.
C4_SetOfGetIsNoOp ==
    (/\ LastSetOk
     /\ check_rep(last.pre, last.cap)
     /\ last.value = get(last.pre, last.cap, last.index))
    => (intervals = last.pre /\ capacity = last.cap)

C4_Witness ==
    /\ LastSetOk
    /\ check_rep(last.pre, last.cap)
    /\ Len(last.pre) >= 2
    /\ last.value = get(last.pre, last.cap, last.index)
    /\ intervals = last.pre

\* The case of C5: a boundary cell of its run is set to a value that differs
\* from the run's and equals that of the adjacent run on that side.
C5_Case ==
    /\ LastSetOk
    /\ LastRun.value # last.value
    /\ \/ LastAtFirst /\ LastPrevHolds
       \/ LastAtLast /\ LastNextHolds

C6_Case ==
    /\ LastSetOk
    /\ LastRun.value # last.value
    /\ LastRun.cell_i_start < last.index
    /\ last.index < LastEnd - 1

\* C6: in that case the run count grows by exactly two and the run is replaced
\* by [start, index) with the old value, {index} with the new value and
\* [index + 1, old end) with the old value; every other run is unchanged.
C6_SplitIntoThree ==
    C6_Case =>
        /\ Len(intervals) = Len(last.pre) + 2
        /\ \A k \in 0 .. LastIi : intervals[k + 1] = last.pre[k + 1]
        /\ interval_cell_i_end(intervals, capacity, LastIi) = last.index
        /\ intervals[LastIi + 2] = IntervalNode(last.index, last.value)
        /\ interval_cell_i_end(intervals, capacity, LastIi + 1) = last.index + 1
        /\ intervals[LastIi + 3] = IntervalNode(last.index + 1, LastRun.value)
        /\ interval_cell_i_end(intervals, capacity, LastIi + 2) = LastEnd
        /\ \A k \in (LastIi + 1) .. (Len(last.pre) - 1) :
               intervals[k + 3] = last.pre[k + 1]

C6_Witness ==
    /\ C6_Case
    /\ Len(last.pre) >= 2
    /\ Len(intervals) = Len(last.pre) + 2

\* C7: on a tree that check_rep accepts, cell_wise_iter() yields get(i) as its
\* i-th item, yields exactly capacity items, and returns None from then on.
C7_CellWiseIterMatchesGet ==
    (cw.active /\ check_rep(intervals, capacity)) =>
        /\ status = "ok"
        /\ Len(cw_out) <= capacity
        /\ \A k \in 1 .. Len(cw_out) : cw_out[k] = get(intervals, capacity, k - 1)
        /\ cw_none => Len(cw_out) = capacity
        /\ (cw.interval_i = Len(intervals)) <=> (Len(cw_out) = capacity)

C7_Witness ==
    /\ cw.active
    /\ check_rep(intervals, capacity)
    /\ cw_none
    /\ Len(intervals) >= 3
    /\ Len(cw_out) = capacity
    /\ capacity > Len(intervals)

\* C8: on a tree that check_rep accepts, get(index) with index < capacity does
\* not hit the assert of interval_i and returns the value of the one run r
\* with r.start <= index < end of r.
C8_GetReturnsContainingRun ==
    (last.op = "get" /\ check_rep(last.pre, last.cap)) =>
        /\ status = "ok"
        /\ Cardinality({k \in 0 .. (Len(last.pre) - 1) :
                            Contains(last.pre, last.cap, k, last.index)}) = 1
        /\ \A k \in 0 .. (Len(last.pre) - 1) :
               Contains(last.pre, last.cap, k, last.index)
                   => last.value = last.pre[k + 1].value

C8_Witness ==
    /\ last.op = "get"
    /\ status = "ok"
    /\ check_rep(last.pre, last.cap)
    /\ Len(last.pre) >= 3
    /\ last.index >= last.pre[Len(last.pre)].cell_i_start

(***************************************************************************)
(* The box of the live ValueIter in odometer order.                         *)
(***************************************************************************)
BoxWidth(i) == vi.end[i] - vi.start[i] + 1
BoxVolume == BoxWidth(1) * BoxWidth(2) * BoxWidth(3)

\* The k-th coordinate (k from 0) of the box, axis 0 fastest.
Odometer(k) ==
    <<vi.start[1] + (k % BoxWidth(1)),
      vi.start[2] + ((k \div BoxWidth(1)) % BoxWidth(2)),
      vi.start[3] + (k \div (BoxWidth(1) * BoxWidth(2)))>>

\* The value stored at voxel c: chunk(chunk_index(c)).data().get(interval_tree_index(c)).
StoredAt(c) ==
    get(chunks[chunk_index(c)].intervals, chunks[chunk_index(c)].capacity,
        interval_tree_index(c))

\* The case of C9: a live ValueIter over a box all of whose chunks are present.
C9_Case ==
    /\ vi.active
    /\ \A k \in 0 .. (BoxVolume - 1) : has_chunk(chunks, chunk_index(Odometer(k)))

\* C9: over a box all of whose chunks are present, ValueIter does not panic,
\* its k-th item is the value stored at the k-th coordinate of the box in
\* odometer order, and it returns None exactly after one item per coordinate.
C9_ValueIterYieldsStoredValues ==
    C9_Case =>
        /\ status = "ok"
        /\ Len(vi_out) <= BoxVolume
        /\ \A k \in 1 .. Len(vi_out) : vi_out[k] = StoredAt(Odometer(k - 1))
        /\ vi_none => Len(vi_out) = BoxVolume
        /\ vi.next.some <=> Len(vi_out) < BoxVolume

\* A finished scan of several rows that crossed from chunk A to chunk B along
\* axis 0, the two cells holding different values.
C9_Witness ==
    /\ C9_Case
    /\ vi_none
    /\ BoxWidth(2) > 1
    /\ BoxWidth(3) > 1
    /\ \E k \in 1 .. (Len(vi_out) - 1) :
           /\ Odometer(k - 1)[1] = CHUNK_SIZE[1] - 1
           /\ Odometer(k)[1] = CHUNK_SIZE[1]
           /\ Len(chunks[chunk_index(Odometer(k - 1))].intervals) > 1
           /\ vi_out[k] = StoredAt(Odometer(k - 1))
           /\ vi_out[k + 1] = StoredAt(Odometer(k))
           /\ vi_out[k] # vi_out[k + 1]

\* C10: when ValueIter looks up a chunk that is absent from the ChunkSet, the
\* program does not panic: the condition is one the caller can handle.
C10_MissingChunkIsRecoverable == vi_missing => status = "ok"

(***************************************************************************)
(* Chunk and ChunkSet claims.                                               *)
(***************************************************************************)
\* C16: Chunk::new fails exactly when the tree's capacity differs from the
\* chunk volume and then nothing is stored, so every chunk in the ChunkSet has
\* capacity equal to the chunk volume; ChunkSet::chunk leaves the map as it
\* was and returns None for a coordinate never passed to set_chunk.
C16_ChunksHaveChunkVolume ==
    /\ \A ci \in DOMAIN chunks : chunks[ci].capacity = ChunkVolume
    /\ (status = "panic") <=> (\E p \in passed : p.capacity # ChunkVolume)
    /\ DOMAIN chunks = {p.index : p \in {q \in passed : q.capacity = ChunkVolume}}
    /\ cs_last.op = "chunk" =>
           /\ chunks = cs_last.pre
           /\ (\A p \in passed : p.index # cs_last.index) => ~cs_last.found

\* A lookup of a coordinate never passed to set_chunk, other chunks being stored.
C16_Witness ==
    /\ cs_last.op = "chunk"
    /\ \A p \in passed : p.index # cs_last.index
    /\ ~cs_last.found
    /\ Cardinality(DOMAIN chunks) >= 2
    /\ chunks = cs_last.pre

\* The coordinate of the item the live ValueIter yielded last.
LastYielded == Odometer(Len(vi_out) - 1)

\* The cell of its chunk the cached cell iterator will yield next: the start
\* of its run plus cell_i, or the capacity once it has run off the last run.
CellIterPosition ==
    LET data == chunks[vi.cell_iter.chunk]
    IN  IF vi.cell_iter.interval_i = Len(data.intervals)
        THEN data.capacity
        ELSE data.intervals[vi.cell_iter.interval_i + 1].cell_i_start + vi.cell_iter.cell_i

\* C20: whenever ValueIter::next has yielded the value of coordinate c, the
\* cached pair is that of chunk_index(c) and its cell iterator was pulled at
\* interval_tree_index(c), so it now stands one cell further; and next() never
\* aborts on an exhausted or absent cell iterator: if it aborts, a chunk was
\* missing.
C20_CellIterTracksCoordinate ==
    /\ (vi.active /\ status = "ok" /\ Len(vi_out) >= 1) =>
           /\ vi.cell_iter.some
           /\ vi.cell_iter.chunk = chunk_index(LastYielded)
           /\ CellIterPosition = interval_tree_index(LastYielded) + 1
    /\ (vi.active /\ status = "panic") => vi_missing

\* A value pulled without re-derivation: the coordinate is neither at the start
\* of its row nor in another chunk than the one before it, in a chunk of
\* several runs, after an earlier row of the same box.
C20_Witness ==
    /\ vi.active
    /\ status = "ok"
    /\ Len(vi_out) > BoxWidth(1)
    /\ LastYielded[1] # vi.start[1]
    /\ chunk_index(LastYielded) = chunk_index(Odometer(Len(vi_out) - 2))
    /\ Len(chunks[vi.cell_iter.chunk].intervals) > 1
    /\ CellIterPosition = interval_tree_index(LastYielded) + 1

(***************************************************************************)
(* IndexIter claims.  The box of the live IndexIter in odometer order.      *)
(***************************************************************************)
IxWidth(i) == ix.end[i] - ix.start[i] + 1
IxVolume == IxWidth(1) * IxWidth(2) * IxWidth(3)

\* The k-th coordinate (k from 0) of the box, axis 0 fastest.
IxOdometer(k) ==
    <<ix.start[1] + (k % IxWidth(1)),
      ix.start[2] + ((k \div IxWidth(1)) % IxWidth(2)),
      ix.start[3] + (k \div (IxWidth(1) * IxWidth(2)))>>

IxBox == {c \in IndexCorners : \A i \in 1 .. 3 : ix.start[i] <= c[i] /\ c[i] <= ix.end[i]}

\* C11: the k-th item of IndexIter is the k-th coordinate of the closed box in
\* odometer order; it has a next item exactly while fewer than the box's
\* volume have been yielded, so that once exhausted it has yielded every
\* coordinate of the box exactly once; it returns None only then, on every call.
C11_IndexIterOdometer ==
    ix.active =>
        /\ status = "ok"
        /\ Len(ix_out) <= IxVolume
        /\ \A k \in 1 .. Len(ix_out) : ix_out[k] = IxOdometer(k - 1)
        /\ ix.next.some <=> Len(ix_out) < IxVolume
        /\ ix.next.some => ix.next.v = IxOdometer(Len(ix_out))
        /\ ix_nones > 0 => ~ix.next.some
        /\ ~ix.next.some =>
               /\ {ix_out[k] : k \in 1 .. Len(ix_out)} = IxBox
               /\ Cardinality(IxBox) = Len(ix_out)

\* An IndexIter over a box wider than one on every axis, run to exhaustion and
\* called again after its first None.
C11_Witness ==
    /\ ix.active
    /\ \A i \in 1 .. 3 : IxWidth(i) > 1
    /\ ix_nones >= 2
    /\ Len(ix_out) = IxVolume
    /\ ix_out[IxVolume] = ix.end

\* C15: IndexIter::new fails, with nothing yielded, whenever start[i] > end[i]
\* on some axis, and succeeds otherwise; over the single-cell box start = end
\* the iterator yields that one coordinate and is exhausted.
C15_IndexIterNewChecksRange ==
    /\ (\E i \in 1 .. 3 : ix.start[i] > ix.end[i]) =>
           (status = "panic" /\ ~ix.active /\ ix_out = <<>>)
    /\ ((\A i \in 1 .. 3 : ix.start[i] <= ix.end[i]) /\ ix # NoIndexIter) =>
           (status = "ok" /\ ix.active)
    /\ (ix.active /\ ix.start = ix.end) =>
           /\ ix.next.some => ix_out = <<>>
           /\ ~ix.next.some => ix_out = <<ix.start>>

\* A construction refused for axis 1 alone.
C15_Witness ==
    /\ status = "panic"
    /\ ~ix.active
    /\ ix.start[1] <= ix.end[1]
    /\ ix.start[2] > ix.end[2]
    /\ ix.start[3] <= ix.end[3]
    /\ ix_out = <<>>

(***************************************************************************)
(* Linearization claims.                                                    *)
(***************************************************************************)
\* The chunk-local remainder coordinate of a voxel.
Remainder(v) == [i \in 1 .. 3 |-> v[i] % CHUNK_SIZE[i]]

\* C14: interval_tree_index lies in [0, chunk volume); it is the remainder
\* coordinate read in mixed radix with axis 0 fastest (weights 1, CHUNK_SIZE[0],
\* CHUNK_SIZE[0] * CHUNK_SIZE[1]), so two voxels get the same index exactly when
\* their remainder coordinates are equal; and two distinct voxels never get
\* the same (chunk_index, interval_tree_index) pair.
C14_LinearizationInjective ==
    lin.done =>
        /\ 0 <= lin.a_cell /\ lin.a_cell < ChunkVolume
        /\ lin.a_cell = Remainder(lin.a)[1]
                          + Remainder(lin.a)[2] * CHUNK_SIZE[1]
                          + Remainder(lin.a)[3] * CHUNK_SIZE[1] * CHUNK_SIZE[2]
        /\ (lin.a_cell = lin.b_cell) <=> (Remainder(lin.a) = Remainder(lin.b))
        /\ (lin.a # lin.b) => (<<lin.a_chunk, lin.a_cell>> # <<lin.b_chunk, lin.b_cell>>)

\* Two voxels with the same remainder on every axis in chunks that differ on
\* every axis, the remainder being the last cell on axis 1.
C14_Witness ==
    /\ lin.done
    /\ lin.a_cell = lin.b_cell
    /\ \A i \in 1 .. 3 : lin.a_chunk[i] # lin.b_chunk[i]
    /\ Remainder(lin.a)[2] = CHUNK_SIZE[2] - 1
    /\ lin.a_cell > 0

(***************************************************************************)
(* Claims on the failures and the branches of the tree's calls.             *)
(***************************************************************************)
\* C12: on a tree that check_rep accepts, get(index) and set(index, v) with
\* index >= capacity abort, and the run list and the capacity are as before.
C12_OutOfBoundsAborts ==
    (/\ last.op \in {"get", "set"}
     /\ check_rep(last.pre, last.cap)
     /\ last.index >= last.cap)
    => (status = "panic" /\ intervals = last.pre /\ capacity = last.cap)

\* A set one past the end of a tree of several runs, aborted.
C12_Witness ==
    /\ last.op = "set"
    /\ check_rep(last.pre, last.cap)
    /\ Len(last.pre) >= 2
    /\ last.index = last.cap
    /\ last.value # last.pre[Len(last.pre)].value
    /\ status = "panic"
    /\ intervals = last.pre

\* The run list breaks one of the invariants of the Run-Length Array: it is
\* empty, its first start is not 0, its starts are not strictly increasing,
\* its last start is not below the capacity, or two adjacent runs hold equal
\* values.
Malformed(ivs, cap) ==
    \/ Len(ivs) = 0
    \/ ivs[1].cell_i_start # 0
    \/ \E k \in 1 .. (Len(ivs) - 1) : ivs[k].cell_i_start >= ivs[k + 1].cell_i_start
    \/ ivs[Len(ivs)].cell_i_start >= cap
    \/ \E k \in 1 .. (Len(ivs) - 1) : ivs[k].value = ivs[k + 1].value

\* C13: ContiguousIntervalTree::new(nodes, capacity) fails whenever the run
\* list breaks one of those invariants, and otherwise succeeds and stores the
\* list and the capacity as given.
C13_NewRejectsMalformed ==
    last.op = "new" =>
        IF Malformed(last.pre, last.cap)
        THEN status = "panic"
        ELSE status = "ok" /\ intervals = last.pre /\ capacity = last.cap

\* The case of C18: the last cell of a run of more than one cell, on a tree
\* that check_rep accepts, is set to a value that differs from the run's.
C18_Case ==
    /\ LastSetOk
    /\ check_rep(last.pre, last.cap)
    /\ LastRun.value # last.value
    /\ LastAtLast
    /\ ~LastAtFirst

\* C18: in that case, if the next run holds the value its start becomes index
\* and nothing else changes; otherwise the single-cell run {index: value} is
\* inserted right after the run and nothing else changes.
C18_LastCellMergesOrInserts ==
    C18_Case =>
        IF LastNextHolds
        THEN intervals = [last.pre EXCEPT ![LastIi + 2].cell_i_start = last.index]
        ELSE intervals = Insert(last.pre, LastIi + 1, IntervalNode(last.index, last.value))

\* The case of C19: the first cell of its run is set to a value that differs
\* from the run's.
C19_Case ==
    /\ LastSetOk
    /\ LastRun.value # last.value
    /\ LastAtFirst

\* The run list of tests::test_set, of capacity 16.
TestSetNodes == <<IntervalNode(0, 0), IntervalNode(3, 1), IntervalNode(4, 2)>>

\* C19: in that case a run of one cell is removed when the previous run holds
\* the value and otherwise keeps its start and takes the value; a longer run
\* has its start advanced by one and, unless the previous run holds the value,
\* the single-cell run {index: value} inserted right before it.  No other run
\* changes.  And set(0, 3) on {0:0, 3:1, 4:2} gives {0:3, 1:0, 3:1, 4:2}.
C19_FirstCellBranch ==
    /\ C19_Case =>
        LET shrunk == [last.pre EXCEPT ![LastIi + 1].cell_i_start = @ + 1]
        IN  IF LastAtLast
            THEN IF LastPrevHolds
                 THEN intervals = Remove(last.pre, LastIi)
                 ELSE intervals = [last.pre EXCEPT ![LastIi + 1].value = last.value]
            ELSE IF LastPrevHolds
                 THEN intervals = shrunk
                 ELSE /\ Len(intervals) = Len(last.pre) + 1
                      /\ intervals = Insert(shrunk, LastIi, IntervalNode(last.index, last.value))
    /\ set(TestSetNodes, 16, 0, 3) =
           <<IntervalNode(0, 3), IntervalNode(1, 0), IntervalNode(3, 1), IntervalNode(4, 2)>>

\* The first cell of a longer run that has a previous run of another value is
\* set: the shape of set(0, 3) on {0:0, 3:1, 4:2}, one run further in.
C19_Witness ==
    /\ C19_Case
    /\ check_rep(last.pre, last.cap)
    /\ ~LastAtLast
    /\ LastIi >= 1
    /\ ~LastPrevHolds
    /\ Len(intervals) = Len(last.pre) + 1
    /\ intervals[LastIi + 1] = IntervalNode(last.index, last.value)
    /\ intervals[LastIi + 2] = IntervalNode(last.index + 1, LastRun.value)

(***************************************************************************)
(* BitArray claims.                                                         *)
(***************************************************************************)
\* Bit j as get(j) reads it from ints: FALSE where get would abort.
BitOf(ints, j) == bit_in_bounds(ints, j) /\ bit_get(ints, j)

\* C17: every index below bits is addressable: no get, set, clear or toggle
\* of such an index aborts; every bit is false after new; set(i) makes bit i
\* true, clear(i) makes it false and toggle(i) flips it, each leaving every
\* other bit below bits as it was; get returns the bit and changes nothing.
C17_EveryBitAddressable ==
    /\ ba_last.op \in {"get", "set", "clear", "toggle"} => status = "ok"
    /\ (ba_last.op # "none" /\ status = "ok") =>
           \A j \in 0 .. (bits - 1) :
               /\ bit_in_bounds(integers, j)
               /\ bit_get(integers, j) =
                      CASE ba_last.op = "new" -> FALSE
                        [] ba_last.op = "get" -> BitOf(ba_last.pre, j)
                        [] ba_last.op = "set" -> (j = ba_last.index \/ BitOf(ba_last.pre, j))
                        [] ba_last.op = "clear" -> (j # ba_last.index /\ BitOf(ba_last.pre, j))
                        [] ba_last.op = "toggle" ->
                               IF j = ba_last.index
                               THEN ~BitOf(ba_last.pre, j)
                               ELSE BitOf(ba_last.pre, j)
    /\ (ba_last.op = "get" /\ status = "ok") =>
           ba_last.result = BitOf(ba_last.pre, ba_last.index)

====
